---- MODULE Spec2Model ----
(***************************************************************************)
(* Model of match_wiki_new.py: the Wikidata keyword reconciliation         *)
(* pipeline (process_keywords) and its taxonomy enricher                   *)
(* (get_instances_and_subclasses).                                         *)
(*                                                                         *)
(* Strings are tuples of one-character strings, so that str.strip, sorted  *)
(* and split act on them as they do in Python.                             *)
(***************************************************************************)
EXTENDS Integers, Sequences, FiniteSets, TLC

(***************************************************************************)
(* Bounds of the model.                                                    *)
(***************************************************************************)
MaxInput == 2
MaxRuns == 2
MaxCandidates == 2
MaxBindings == 2
MaxFaultyInput == 1
MaxLiveInput == 1

(***************************************************************************)
(* Strings.                                                                *)
(***************************************************************************)
\* the characters in use, in code-point order; "?" stands for a lone
\* surrogate (json.loads turns "\udc80" into one), which utf-8 cannot encode
Alphabet == <<"\n", "\r", " ", "/", "1", "2", ";", "Q", "a", "b", "e", "u", "?">>

\* the characters str.strip() and str.split() take for blanks
Whitespace == {"\n", "\r", " "}

Ord(c) == CHOOSE n \in 1..Len(Alphabet) : Alphabet[n] = c

\* Python's str < str: lexicographic by code point, a proper prefix first
RECURSIVE StrLess(_, _)
StrLess(s, t) ==
    IF t = <<>> THEN FALSE
    ELSE IF s = <<>> THEN TRUE
    ELSE IF Head(s) = Head(t) THEN StrLess(Tail(s), Tail(t))
    ELSE Ord(Head(s)) < Ord(Head(t))

RECURSIVE LStrip(_)
LStrip(s) == IF s # <<>> /\ Head(s) \in Whitespace THEN LStrip(Tail(s)) ELSE s

RECURSIVE RStrip(_)
RStrip(s) ==
    IF s # <<>> /\ s[Len(s)] \in Whitespace THEN RStrip(SubSeq(s, 1, Len(s) - 1)) ELSE s

\* str.strip()
Strip(s) == RStrip(LStrip(s))

\* sorted(set_of_strings)
RECURSIVE Sorted(_)
Sorted(S) ==
    IF S = {} THEN <<>>
    ELSE LET m == CHOOSE x \in S : \A y \in S \ {x} : StrLess(x, y)
         IN  <<m>> \o Sorted(S \ {m})

Range(s) == {s[n] : n \in 1..Len(s)}

\* What a file opened for reading without newline='' hands its reader: in
\* universal-newlines mode "\r\n" and "\r" both come out as "\n".
RECURSIVE UniversalNewlines(_)
UniversalNewlines(s) ==
    IF s = <<>> THEN <<>>
    ELSE IF Head(s) = "\r"
         THEN <<"\n">> \o UniversalNewlines(IF Len(s) > 1 /\ s[2] = "\n"
                                             THEN Tail(Tail(s)) ELSE Tail(s))
         ELSE <<Head(s)>> \o UniversalNewlines(Tail(s))

(***************************************************************************)
(* get_instances_and_subclasses: the taxonomy enricher.                    *)
(***************************************************************************)
max_retries == 3

Q1 == <<"Q", "1">>
Q2 == <<"Q", "2">>
La == <<"a">>
Lb == <<"b">>

\* the entity URI the SPARQL endpoint binds to ?p31 and ?p279
Uri(qid) == <<"e", "/">> \o qid

\* value.split("/")[-1]
RECURSIVE AfterLastSlash(_)
AfterLastSlash(s) ==
    IF "/" \in Range(s) THEN AfterLastSlash(Tail(s)) ELSE s

\* One binding of the result: a JSON object holding some of the four
\* variables (both patterns of the query are OPTIONAL; the label service
\* binds a label to every entity it is given).
Bindings ==
    { [p31 |-> Uri(Q1), p31Label |-> Lb],
      [p31 |-> Uri(Q2), p31Label |-> La],
      [p31 |-> Uri(Q1), p31Label |-> Lb, p279 |-> Uri(Q2), p279Label |-> La],
      [p279 |-> Uri(Q1), p279Label |-> La] }

SeqsUpTo(S, n) == UNION {[1..m -> S] : m \in 0..n}

BindingLists == SeqsUpTo(Bindings, MaxBindings)

\* What one requests.get on the SPARQL endpoint can bring: HTTP 429, any
\* other failure (transport error, raise_for_status, malformed JSON), or a
\* result with its bindings.
RateLimited == [kind |-> "429"]
Failure == [kind |-> "error"]
Success(results) == [kind |-> "ok", results |-> results]

EnrichResponses == {RateLimited, Failure} \cup {Success(b) : b \in BindingLists}

\* ParseBindings keeping the values in the order of the bindings, repeated
\* ones included
ParseBindings_InBindingOrder(results) ==
    LET Values(var, conv(_)) ==
            LET with == SelectSeq(results, LAMBDA b : var \in DOMAIN b)
            IN  [n \in 1..Len(with) |-> conv(with[n][var])]
        Same(v) == v
    IN  [ p31_qids |-> Values("p31", AfterLastSlash),
          p31_labels |-> Values("p31Label", Same),
          p279_qids |-> Values("p279", AfterLastSlash),
          p279_labels |-> Values("p279Label", Same) ]

\* lines 91-94: four set comprehensions, each sorted on its own
ParseBindings(results) ==
    [ p31_qids |-> Sorted({AfterLastSlash(results[n]["p31"]) :
                             n \in {m \in 1..Len(results) : "p31" \in DOMAIN results[m]}}),
      p31_labels |-> Sorted({results[n]["p31Label"] :
                             n \in {m \in 1..Len(results) : "p31Label" \in DOMAIN results[m]}}),
      p279_qids |-> Sorted({AfterLastSlash(results[n]["p279"]) :
                             n \in {m \in 1..Len(results) : "p279" \in DOMAIN results[m]}}),
      p279_labels |-> Sorted({results[n]["p279Label"] :
                             n \in {m \in 1..Len(results) : "p279Label" \in DOMAIN results[m]}}) ]

\* line 106: return [], [], [], []
EmptyFacts ==
    [p31_qids |-> <<>>, p31_labels |-> <<>>, p279_qids |-> <<>>, p279_labels |-> <<>>]

RECURSIVE Pow2(_)
Pow2(n) == IF n = 0 THEN 1 ELSE 2 * Pow2(n - 1)

\* sleeps are recorded in milliseconds
RateLimitWaitMs == 10000
ThrottleWaitMs == 500
BackoffMs(attempt) == 1000 * Pow2(attempt)

\* the state of one call: the loop variable, the requests issued, the
\* responses received, every time.sleep made, and the value returned
EnrichStart ==
    [ attempt |-> 0, returned |-> FALSE, facts |-> EmptyFacts,
      requests |-> 0, responses |-> <<>>, sleeps |-> <<>> ]

\* EnrichAttempt with a 429 that does not use up an attempt
EnrichAttempt_FreeRetry(st, resp) ==
    LET sent == [st EXCEPT !.requests = @ + 1, !.responses = Append(@, resp)]
        next == st.attempt + 1
        exhausted == next >= max_retries
    IN  IF resp.kind = "429"
        THEN [sent EXCEPT !.sleeps = Append(@, RateLimitWaitMs)]
        ELSE IF resp.kind = "ok"
        THEN [sent EXCEPT !.facts = ParseBindings(resp.results),
                          !.sleeps = Append(@, ThrottleWaitMs),
                          !.returned = TRUE]
        ELSE [sent EXCEPT !.sleeps = IF st.attempt < max_retries - 1
                                     THEN Append(@, BackoffMs(st.attempt))
                                     ELSE @,
                          !.attempt = next, !.returned = exhausted]

\* EnrichAttempt with the backoff sleep made after the last attempt too
EnrichAttempt_AlwaysBackoff(st, resp) ==
    LET sent == [st EXCEPT !.requests = @ + 1, !.responses = Append(@, resp)]
        next == st.attempt + 1
        exhausted == next >= max_retries
    IN  IF resp.kind = "429"
        THEN [sent EXCEPT !.sleeps = Append(@, RateLimitWaitMs),
                          !.attempt = next, !.returned = exhausted]
        ELSE IF resp.kind = "ok"
        THEN [sent EXCEPT !.facts = ParseBindings(resp.results),
                          !.sleeps = Append(@, ThrottleWaitMs),
                          !.returned = TRUE]
        ELSE [sent EXCEPT !.sleeps = Append(@, BackoffMs(st.attempt)),
                          !.attempt = next, !.returned = exhausted]

\* EnrichAttempt with a backoff that grows with the failures only, the 429
\* responses left out
EnrichAttempt_BackoffByFailures(st, resp) ==
    LET sent == [st EXCEPT !.requests = @ + 1, !.responses = Append(@, resp)]
        next == st.attempt + 1
        exhausted == next >= max_retries
        failures == Len(SelectSeq(st.responses, LAMBDA r : r.kind = "error"))
    IN  IF resp.kind = "429"
        THEN [sent EXCEPT !.sleeps = Append(@, RateLimitWaitMs),
                          !.attempt = next, !.returned = exhausted]
        ELSE IF resp.kind = "ok"
        THEN [sent EXCEPT !.facts = ParseBindings(resp.results),
                          !.sleeps = Append(@, ThrottleWaitMs),
                          !.returned = TRUE]
        ELSE [sent EXCEPT !.sleeps = IF st.attempt < max_retries - 1
                                     THEN Append(@, BackoffMs(failures))
                                     ELSE @,
                          !.attempt = next, !.returned = exhausted]

\* One iteration of `for attempt in range(max_retries)` on response resp,
\* and the fall-through return once the range is exhausted.
EnrichAttempt(st, resp) ==
    LET sent == [st EXCEPT !.requests = @ + 1, !.responses = Append(@, resp)]
        next == st.attempt + 1
        exhausted == next >= max_retries
    IN  IF resp.kind = "429"
        THEN [sent EXCEPT !.sleeps = Append(@, RateLimitWaitMs),
                          !.attempt = next, !.returned = exhausted]
        ELSE IF resp.kind = "ok"
        THEN [sent EXCEPT !.facts = ParseBindings(resp.results),
                          !.sleeps = Append(@, ThrottleWaitMs),
                          !.returned = TRUE]
        ELSE [sent EXCEPT !.sleeps = IF st.attempt < max_retries - 1
                                     THEN Append(@, BackoffMs(st.attempt))
                                     ELSE @,
                          !.attempt = next, !.returned = exhausted]

\* the whole call, on the responses the endpoint gives in turn
RECURSIVE EnrichRun(_, _)
EnrichRun(st, script) ==
    IF st.returned \/ script = <<>> THEN st
    ELSE EnrichRun(EnrichAttempt(st, Head(script)), Tail(script))

get_instances_and_subclasses(script) == EnrichRun(EnrichStart, script).facts

(***************************************************************************)
(* rapidfuzz.fuzz.token_sort_ratio: the tokens of each string sorted and   *)
(* joined by one space, then the normalised Indel similarity,              *)
(* 100 * 2 * LCS / (len1 + len2).                                          *)
(***************************************************************************)
\* s.split(): the maximal runs of non-blank characters
RECURSIVE Tokens(_, _)
Tokens(s, cur) ==
    IF s = <<>> THEN (IF cur = <<>> THEN <<>> ELSE <<cur>>)
    ELSE IF Head(s) \in Whitespace
         THEN (IF cur = <<>> THEN <<>> ELSE <<cur>>) \o Tokens(Tail(s), <<>>)
         ELSE Tokens(Tail(s), Append(cur, Head(s)))

\* insertion of one token into a sorted list of tokens
RECURSIVE InsertSorted(_, _)
InsertSorted(x, l) ==
    IF l = <<>> THEN <<x>>
    ELSE IF StrLess(Head(l), x) THEN <<Head(l)>> \o InsertSorted(x, Tail(l))
    ELSE <<x>> \o l

RECURSIVE SortTokens(_)
SortTokens(l) == IF l = <<>> THEN <<>> ELSE InsertSorted(Head(l), SortTokens(Tail(l)))

\* sep.join(l)
RECURSIVE Join(_, _)
Join(sep, l) ==
    IF l = <<>> THEN <<>>
    ELSE IF Len(l) = 1 THEN Head(l)
    ELSE Head(l) \o sep \o Join(sep, Tail(l))

RECURSIVE LCS(_, _)
LCS(s, t) ==
    IF s = <<>> \/ t = <<>> THEN 0
    ELSE IF Head(s) = Head(t) THEN 1 + LCS(Tail(s), Tail(t))
    ELSE LET x == LCS(Tail(s), t)
             y == LCS(s, Tail(t))
         IN  IF x >= y THEN x ELSE y

\* the strings of this model give whole numbers; the division truncates
token_sort_ratio(s1, s2) ==
    LET a == Join(<<" ">>, SortTokens(Tokens(s1, <<>>)))
        b == Join(<<" ">>, SortTokens(Tokens(s2, <<>>)))
    IN  IF Len(a) + Len(b) = 0 THEN 100
        ELSE (200 * LCS(a, b)) \div (Len(a) + Len(b))

RECURSIVE Max(_)
Max(l) ==
    IF Len(l) = 1 THEN Head(l)
    ELSE LET m == Max(Tail(l)) IN IF Head(l) >= m THEN Head(l) ELSE m

(***************************************************************************)
(* process_keywords: the resumable pipeline driver.                        *)
(***************************************************************************)
min_score == 80

Parts == {"matched", "unmatched"}

\* lines 155-160: the column names; each stands as one symbol
HeaderRow ==
    << <<"Keyword">>, <<"Wikidata_QID">>, <<"Wikidata_Label">>, <<"Match_Score">>,
       <<"Instances_QIDs">>, <<"Instances_Labels">>,
       <<"Subclasses_QIDs">>, <<"Subclasses_Labels">>,
       <<"Wikipedia_English_Link">> >>

\* the rows input_csv can hold: a blank line, a blank field, keywords with
\* and without surrounding blanks
InputRows == { <<>>, << <<" ">> >>, << <<"a">> >>, << <<"b", " ">> >> }

\* ... and a keyword of two lines (a quoted field; input_csv is opened with
\* newline='', which keeps its "\r")
MultilineRows == { << <<"a", "\r", "b">> >> }

Inputs == SeqsUpTo(InputRows \cup MultilineRows, MaxInput)

\* the input has no keyword of more than one line
OneLineKeywords(rows) == \A n \in 1..Len(rows) : rows[n] \in InputRows

\* the entities wbsearchentities can return; NotADict stands for an element
\* of "search" that is no JSON object (ent.get raises AttributeError)
NotADict == [dict |-> FALSE, id |-> <<>>, label |-> <<>>, aliases |-> <<>>]

Entities ==
    { [dict |-> TRUE, id |-> Q1, label |-> La, aliases |-> <<>>],
      [dict |-> TRUE, id |-> Q2, label |-> <<>>, aliases |-> <<La, Lb>>],
      NotADict }

\* search_wikidata_entities (lines 27-41): the "search" list of the reply,
\* no entity twice, or [] when the request or its decoding fails
SearchResults ==
    { l \in SeqsUpTo(Entities, MaxCandidates) :
        \A m, n \in 1..Len(l) : l[m] = l[n] => m = n }

\* the wbgetentities label fallback (lines 198-211): a failure, or the
\* English label, "" when the entity has none; one label holds a lone
\* surrogate
LabelFailed == [ok |-> FALSE, value |-> <<>>]
LabelReplies ==
    { LabelFailed, [ok |-> TRUE, value |-> <<>>], [ok |-> TRUE, value |-> La],
      [ok |-> TRUE, value |-> <<"?">>] }

\* The knowledge base behind the lookups of one entity: what the SPARQL
\* endpoint answers over one call of the enricher (Q1: rate-limited once,
\* then a result; the others: down) ...
SparqlScript(qid) ==
    IF qid = Q1
    THEN <<RateLimited, Success(<< [p31 |-> Uri(Q2), p31Label |-> Lb] >>)>>
    ELSE <<Failure, Failure, Failure>>

\* ... and get_wikipedia_link (lines 43-61): the enwiki URL, "" when there
\* is none or the request fails
Sitelink(qid) == IF qid = Q1 THEN <<"u">> ELSE <<>>

\* lines 194-216: the label after the fallback, and the best score
ResolvedLabel(ent, reply) ==
    IF ent.label = <<>> /\ ent.id # <<>>
    THEN (IF reply.ok THEN reply.value ELSE <<>>)
    ELSE ent.label

\* BestScore looking at the label alone
BestScore_LabelOnly(kw, lab, aliases) ==
    IF lab # <<>> THEN token_sort_ratio(kw, lab) ELSE 0

BestScore(kw, lab, aliases) ==
    LET score_label == IF lab # <<>> THEN token_sort_ratio(kw, lab) ELSE 0
        scores_aliases == [n \in 1..Len(aliases) |-> token_sort_ratio(kw, aliases[n])]
    IN  IF lab # <<>> \/ aliases # <<>>
        THEN Max(<<score_label>> \o scores_aliases)
        ELSE 0

\* lines 213-216 and 221-229: result_row
RowOf(kw, ent, lab, facts, link) ==
    << kw, ent.id, lab, BestScore(kw, lab, ent.aliases),
       Join(<<";", " ">>, facts.p31_qids), Join(<<";", " ">>, facts.p31_labels),
       Join(<<";", " ">>, facts.p279_qids), Join(<<";", " ">>, facts.p279_labels),
       link >>

\* lines 194-229, on the knowledge base above
ResultRow(kw, ent, reply) ==
    RowOf(kw, ent, ResolvedLabel(ent, reply),
          get_instances_and_subclasses(SparqlScript(ent.id)), Sitelink(ent.id))

Score(row) == row[4]

\* whether the utf-8 file object can encode the line csv.writer hands it
Encodable(row) ==
    \A n \in (1..Len(row)) \ {4} : "?" \notin Range(row[n])

\* the first fields, stripped, of rows (csv rows that are not blank)
KeysOf(rows) == {Strip(rows[n][1]) : n \in {m \in 1..Len(rows) : rows[m] # <<>>}}

\* lines 115-120: the same of the rows of a partition file as the reader
\* gets them; the file is opened without newline=''
KeysRead(rows) ==
    {Strip(UniversalNewlines(rows[n][1])) : n \in {m \in 1..Len(rows) : rows[m] # <<>>}}

\* A read of a partition file: it goes through, or raises after the reader
\* has yielded `upto` rows (at open when upto = 0).
ReadOutcomes(f, faults) ==
    {[fails |-> FALSE, upto |-> Len(f.rows)]}
      \cup (IF faults /\ f.exists
            THEN {[fails |-> TRUE, upto |-> n] : n \in 0..(IF f.rows = <<>> THEN 0 ELSE Len(f.rows) - 1)}
            ELSE {})

\* lines 113-122, for one file: next(reader, None) drops the first row
KeywordsIn(f, outcome) ==
    IF f.exists THEN KeysRead(SubSeq(f.rows, 2, outcome.upto)) ELSE {}

\* lines 108-124
get_processed_keywords(fs, outcomes) ==
    KeywordsIn(fs["matched"], outcomes["matched"])
      \cup KeywordsIn(fs["unmatched"], outcomes["unmatched"])

\* lines 126-134
should_write_header(f, outcome) ==
    IF ~f.exists THEN TRUE
    ELSE IF outcome.fails THEN TRUE
    ELSE f.rows = <<>>

\* the data rows of a partition: everything but header rows
Records(rows) == SelectSeq(rows, LAMBDA r : r # HeaderRow)

HeaderCount(rows) == Len(rows) - Len(Records(rows))

(***************************************************************************)
(* State.                                                                  *)
(***************************************************************************)
VARIABLES
    input,              \* the rows of input_csv, the same for every run
    io_faults,          \* whether reads of the partition files can fail
    files,              \* per partition: whether it exists, its durable rows
    buffers,            \* per partition: rows written and not yet flushed
    pc,                 \* where process_keywords stands
    run,                \* the runs started so far
    processed_keywords, \* line 138
    write_header,       \* lines 142-143, per partition
    next_row,           \* the input row the reader yields next
    processed_count,
    skipped_count,
    keyword,            \* the keyword being processed
    entities,           \* line 188
    ent_idx,            \* the entities of it handled by the loop of line 192
    label,              \* lines 194-211, for the entity at hand
    matched_items,
    unmatched_items,
    written,            \* the rows of it handed to writerow
    start_len,          \* history: per partition, its rows at bootstrap
    searched,           \* history: the keywords searched in this run, in order
    flushed,            \* history: the keywords with a record made durable
    raised,             \* history: the keywords whose processing raised, this run
    failed_count,       \* history: the processings that raised, this run
    completed,          \* history: the keywords that reached line 246, this run
    resumed,            \* history: this run follows an interrupted one
    F,                  \* history: `flushed` at the last interruption
    enr                 \* one call of get_instances_and_subclasses

locals ==
    <<keyword, entities, ent_idx, label, matched_items, unmatched_items, written>>

counters == <<processed_count, skipped_count>>

history ==
    <<start_len, searched, flushed, raised, failed_count, completed, resumed, F>>

vars ==
    <<input, io_faults, files, buffers, pc, run, processed_keywords, write_header,
      next_row, counters, locals, history, enr>>

NoBuffers == [p \in Parts |-> <<>>]

Running == {"header_matched", "header_unmatched", "loop", "entity", "write"}

InitPipeline ==
    /\ input \in Inputs
    /\ files = [p \in Parts |-> [exists |-> FALSE, rows |-> <<>>]]
    /\ buffers = NoBuffers
    /\ pc = "idle"
    /\ run = 0
    /\ processed_keywords = {}
    /\ write_header = [p \in Parts |-> FALSE]
    /\ next_row = 1
    /\ processed_count = 0
    /\ skipped_count = 0
    /\ keyword = <<>>
    /\ entities = <<>>
    /\ ent_idx = 0
    /\ label = <<>>
    /\ matched_items = <<>>
    /\ unmatched_items = <<>>
    /\ written = 0
    /\ start_len = [p \in Parts |-> 0]
    /\ searched = <<>>
    /\ flushed = {}
    /\ raised = {}
    /\ failed_count = 0
    /\ completed = {}
    /\ resumed = FALSE
    /\ F = {}
    /\ enr = EnrichStart

\* keywords of one line, and every read of the partition files goes through
Init == InitPipeline /\ OneLineKeywords(input) /\ io_faults = FALSE

\* reads of the partition files may raise
InitFaults ==
    /\ InitPipeline
    /\ OneLineKeywords(input)
    /\ Len(input) <= MaxFaultyInput
    /\ io_faults = TRUE

\* keywords of any kind, those of two lines included
InitMultiline == InitPipeline /\ io_faults = FALSE

(***************************************************************************)
(* process_keywords, step by step.                                         *)
(***************************************************************************)
\* The locals of one iteration are dead once it ends: lines 188-190 and 192
\* assign them again before any read.
ForgetLocals ==
    /\ keyword' = <<>>
    /\ entities' = <<>>
    /\ ent_idx' = 0
    /\ label' = <<>>
    /\ matched_items' = <<>>
    /\ unmatched_items' = <<>>
    /\ written' = 0

\* lines 138-151: the processed set, the header flags, the files opened in
\* append mode (which creates them)
Bootstrap ==
    /\ pc \in {"idle", "done", "crashed"}
    /\ run < MaxRuns
    /\ \E rk \in [Parts -> UNION {ReadOutcomes(files[p], io_faults) : p \in Parts}],
          rh \in [Parts -> UNION {ReadOutcomes(files[p], io_faults) : p \in Parts}] :
          /\ \A p \in Parts : /\ rk[p] \in ReadOutcomes(files[p], io_faults)
                               /\ rh[p] \in ReadOutcomes(files[p], io_faults)
          /\ processed_keywords' = get_processed_keywords(files, rk)
          /\ write_header' = [p \in Parts |-> should_write_header(files[p], rh[p])]
    /\ files' = [p \in Parts |-> [exists |-> TRUE, rows |-> files[p].rows]]
    /\ buffers' = NoBuffers
    /\ pc' = "header_matched"
    /\ run' = run + 1
    /\ next_row' = 1
    /\ processed_count' = 0
    /\ skipped_count' = 0
    /\ ForgetLocals
    /\ start_len' = [p \in Parts |-> Len(files[p].rows)]
    /\ searched' = <<>>
    /\ resumed' = (pc = "crashed")
    /\ F' = IF pc = "crashed" THEN F ELSE {}
    /\ raised' = {}
    /\ failed_count' = 0
    /\ completed' = {}
    /\ UNCHANGED <<input, io_faults, flushed, enr>>

\* lines 154-161 and 163-170: writerow(header) and flush, when flagged
HeaderWritten(p) ==
    IF write_header[p]
    THEN [files EXCEPT ![p].rows = @ \o buffers[p] \o <<HeaderRow>>]
    ELSE files

WriteMatchedHeader ==
    /\ pc = "header_matched"
    /\ files' = HeaderWritten("matched")
    /\ pc' = "header_unmatched"
    /\ UNCHANGED <<input, io_faults, buffers, run, processed_keywords, write_header,
                   next_row, counters, locals, history, enr>>

\* lines 163-173
WriteUnmatchedHeader ==
    /\ pc = "header_unmatched"
    /\ files' = HeaderWritten("unmatched")
    /\ processed_count' = 0
    /\ skipped_count' = 0
    /\ pc' = "loop"
    /\ UNCHANGED <<input, io_faults, buffers, run, processed_keywords, write_header,
                   next_row, locals, history, enr>>

\* line 178
KeywordOf(row) == IF row = <<>> THEN <<>> ELSE Strip(row[1])

\* BlankRow counting the row as skipped
BlankRow_CountedAsSkipped ==
    /\ pc = "loop"
    /\ next_row <= Len(input)
    /\ KeywordOf(input[next_row]) = <<>>
    /\ next_row' = next_row + 1
    /\ skipped_count' = skipped_count + 1
    /\ UNCHANGED <<input, io_faults, files, buffers, pc, run, processed_keywords,
                   write_header, processed_count, locals, history, enr>>

\* lines 175-180: a blank row or a blank keyword is passed over
BlankRow ==
    /\ pc = "loop"
    /\ next_row <= Len(input)
    /\ KeywordOf(input[next_row]) = <<>>
    /\ next_row' = next_row + 1
    /\ UNCHANGED <<input, io_faults, files, buffers, pc, run, processed_keywords,
                   write_header, counters, locals, history, enr>>

\* SkipRow without its count
SkipRow_Uncounted ==
    /\ pc = "loop"
    /\ next_row <= Len(input)
    /\ KeywordOf(input[next_row]) # <<>>
    /\ KeywordOf(input[next_row]) \in processed_keywords
    /\ next_row' = next_row + 1
    /\ UNCHANGED <<input, io_faults, files, buffers, pc, run, processed_keywords,
                   write_header, counters, locals, history, enr>>

\* lines 182-185
SkipRow ==
    /\ pc = "loop"
    /\ next_row <= Len(input)
    /\ KeywordOf(input[next_row]) # <<>>
    /\ KeywordOf(input[next_row]) \in processed_keywords
    /\ next_row' = next_row + 1
    /\ skipped_count' = skipped_count + 1
    /\ UNCHANGED <<input, io_faults, files, buffers, pc, run, processed_keywords,
                   write_header, processed_count, locals, history, enr>>

\* lines 187-190: the search, [] when it fails
SearchRow ==
    /\ pc = "loop"
    /\ next_row <= Len(input)
    /\ KeywordOf(input[next_row]) # <<>>
    /\ KeywordOf(input[next_row]) \notin processed_keywords
    /\ next_row' = next_row + 1
    /\ keyword' = KeywordOf(input[next_row])
    /\ \E found \in SearchResults :
          /\ entities' = found
          /\ pc' = IF found = <<>> THEN "write" ELSE "entity"
    /\ ent_idx' = 0
    /\ label' = <<>>
    /\ matched_items' = <<>>
    /\ unmatched_items' = <<>>
    /\ written' = 0
    /\ searched' = Append(searched, keyword')
    /\ UNCHANGED <<input, io_faults, files, buffers, run, processed_keywords,
                   write_header, counters, start_len, flushed, raised, failed_count,
                   completed,
                   resumed, F, enr>>

\* Except without a handler: the exception leaves process_keywords
Except_Propagates ==
    /\ pc' = "failed"
    /\ raised' = raised \cup {keyword}
    /\ failed_count' = failed_count + 1
    /\ ForgetLocals

\* lines 249-251: the handler of the try of line 187
Except ==
    /\ pc' = "loop"
    /\ raised' = raised \cup {keyword}
    /\ failed_count' = failed_count + 1
    /\ ForgetLocals

\* lines 192-234, one entity
ProcessEntity ==
    /\ pc = "entity"
    /\ LET ent == entities[ent_idx + 1]
       IN  IF ~ent.dict
           THEN Except
           ELSE /\ \E reply \in LabelReplies :
                     LET result_row == ResultRow(keyword, ent, reply)
                     IN  IF Score(result_row) >= min_score
                         THEN /\ matched_items' = Append(matched_items, result_row)
                              /\ UNCHANGED unmatched_items
                         ELSE /\ unmatched_items' = Append(unmatched_items, result_row)
                              /\ UNCHANGED matched_items
                /\ ent_idx' = ent_idx + 1
                /\ pc' = IF ent_idx + 1 = Len(entities) THEN "write" ELSE "entity"
                /\ UNCHANGED <<raised, failed_count, keyword, entities, label, written>>
    /\ UNCHANGED <<input, io_faults, files, buffers, run, processed_keywords,
                   write_header, next_row, counters,
                   start_len, searched, flushed, completed, resumed, F, enr>>

\* Target with the rows of line 243 handed to the writer of line 239
Target_MatchedWriterTwice == "matched"

\* lines 237 and 241: the partition this keyword writes to, and its rows
Target == IF matched_items # <<>> THEN "matched" ELSE "unmatched"

Items == IF matched_items # <<>> THEN matched_items ELSE unmatched_items

\* lines 238-239 and 242-243: one writerow
WriteRow ==
    /\ pc = "write"
    /\ written < Len(Items)
    /\ IF Encodable(Items[written + 1])
       THEN /\ buffers' = [buffers EXCEPT ![Target] = Append(@, Items[written + 1])]
            /\ written' = written + 1
            /\ UNCHANGED <<pc, raised, failed_count, keyword, entities, ent_idx, label,
                           matched_items, unmatched_items>>
       ELSE /\ Except
            /\ UNCHANGED buffers
    /\ UNCHANGED <<input, io_faults, files, run, processed_keywords, write_header,
                   next_row, counters, start_len, searched, flushed, completed,
                   resumed, F, enr>>

\* Flushed putting the rows at the start of the file, not at its end
Flushed_AtStart(fs, bufs, p) == [fs EXCEPT ![p].rows = bufs[p] \o @]

\* file.flush(): what the buffer holds becomes durable
Flushed(fs, bufs, p) == [fs EXCEPT ![p].rows = @ \o bufs[p]]

\* FinishKeyword counting a keyword without candidates as skipped
FinishKeyword_NoneIsSkipped ==
    /\ pc = "write"
    /\ written = Len(Items)
    /\ IF Items # <<>>
       THEN /\ files' = Flushed(files, buffers, Target)
            /\ buffers' = [buffers EXCEPT ![Target] = <<>>]
            /\ flushed' = flushed \cup KeysOf(buffers[Target])
            /\ processed_count' = processed_count + 1
            /\ UNCHANGED skipped_count
       ELSE /\ skipped_count' = skipped_count + 1
            /\ UNCHANGED <<files, buffers, flushed, processed_count>>
    /\ completed' = completed \cup {keyword}
    /\ pc' = "loop"
    /\ ForgetLocals
    /\ UNCHANGED <<input, io_faults, run, processed_keywords, write_header, next_row,
                   start_len, searched, raised, failed_count, resumed, F, enr>>

\* lines 240 and 244-247: the flush of the partition written to, if any,
\* and the count
FinishKeyword ==
    /\ pc = "write"
    /\ written = Len(Items)
    /\ IF Items # <<>>
       THEN /\ files' = Flushed(files, buffers, Target)
            /\ buffers' = [buffers EXCEPT ![Target] = <<>>]
            /\ flushed' = flushed \cup KeysOf(buffers[Target])
       ELSE UNCHANGED <<files, buffers, flushed>>
    /\ processed_count' = processed_count + 1
    /\ completed' = completed \cup {keyword}
    /\ pc' = "loop"
    /\ ForgetLocals
    /\ UNCHANGED <<input, io_faults, run, processed_keywords, write_header, next_row,
                   skipped_count, start_len, searched, raised, failed_count, resumed, F, enr>>

\* line 253 and the end of the with block, which closes, and so flushes,
\* both partition files
Complete ==
    /\ pc = "loop"
    /\ next_row > Len(input)
    /\ files' = Flushed(Flushed(files, buffers, "matched"), buffers, "unmatched")
    /\ buffers' = NoBuffers
    /\ flushed' = flushed \cup KeysOf(buffers["matched"]) \cup KeysOf(buffers["unmatched"])
    /\ pc' = "done"
    /\ UNCHANGED <<input, io_faults, run, processed_keywords, write_header, next_row,
                   counters, locals, start_len, searched, raised, failed_count,
                   completed, resumed,
                   F, enr>>

\* The process is killed: its memory, with what was written and not
\* flushed, is lost.
Crash ==
    /\ pc \in Running
    /\ buffers' = NoBuffers
    /\ pc' = "crashed"
    /\ F' = flushed
    /\ processed_keywords' = {}
    /\ write_header' = [p \in Parts |-> FALSE]
    /\ next_row' = 1
    /\ processed_count' = 0
    /\ skipped_count' = 0
    /\ ForgetLocals
    /\ start_len' = [p \in Parts |-> Len(files[p].rows)]
    /\ searched' = <<>>
    /\ raised' = {}
    /\ failed_count' = 0
    /\ completed' = {}
    /\ resumed' = FALSE
    /\ UNCHANGED <<input, io_faults, files, run, flushed, enr>>

Next ==
    \/ Bootstrap
    \/ WriteMatchedHeader
    \/ WriteUnmatchedHeader
    \/ BlankRow
    \/ SkipRow
    \/ SearchRow
    \/ ProcessEntity
    \/ WriteRow
    \/ FinishKeyword
    \/ Complete
    \/ Crash

Spec == Init /\ [][Next]_vars

SpecFaults == InitFaults /\ [][Next]_vars

SpecMultiline == InitMultiline /\ [][Next]_vars

(***************************************************************************)
(* The run request by request: the lookups of one entity taken apart, each *)
(* request free to fail. The program runs on for as long as it has a step  *)
(* to take; nothing interrupts it.                                         *)
(***************************************************************************)
\* what the SPARQL endpoint may answer to one request about qid
SparqlReplies(qid) ==
    {RateLimited, Failure, Success(<< [p31 |-> Uri(Q2), p31Label |-> Lb] >>)}

\* what get_wikipedia_link may return: the enwiki URL, or "" when there is
\* none or the request fails
LinkReplies(qid) == {Sitelink(qid), <<>>}

\* lines 192-216: the label, after the fallback request when it is due
LookupLabel ==
    /\ pc = "entity"
    /\ LET ent == entities[ent_idx + 1]
       IN  IF ~ent.dict
           THEN Except /\ UNCHANGED enr
           ELSE /\ \E reply \in LabelReplies : label' = ResolvedLabel(ent, reply)
                /\ enr' = EnrichStart
                /\ pc' = "enrich"
                /\ UNCHANGED <<raised, failed_count, keyword, entities, ent_idx,
                               matched_items,
                               unmatched_items, written>>
    /\ UNCHANGED <<input, io_faults, files, buffers, run, processed_keywords,
                   write_header, next_row, counters,
                   start_len, searched, flushed, completed, resumed, F>>

\* line 218, one request of the call
EnrichCall ==
    /\ pc = "enrich"
    /\ ~enr.returned
    /\ \E resp \in SparqlReplies(entities[ent_idx + 1].id) :
          enr' = EnrichAttempt(enr, resp)
    /\ UNCHANGED <<input, io_faults, files, buffers, pc, run, processed_keywords,
                   write_header, next_row, counters, locals, history>>

\* lines 219-234: the link, the row and its classification, once the call
\* of line 218 has returned
BuildRow ==
    /\ pc = "enrich"
    /\ enr.returned
    /\ \E link \in LinkReplies(entities[ent_idx + 1].id) :
          LET result_row == RowOf(keyword, entities[ent_idx + 1], label, enr.facts, link)
          IN  IF Score(result_row) >= min_score
              THEN /\ matched_items' = Append(matched_items, result_row)
                   /\ UNCHANGED unmatched_items
              ELSE /\ unmatched_items' = Append(unmatched_items, result_row)
                   /\ UNCHANGED matched_items
    /\ ent_idx' = ent_idx + 1
    /\ label' = <<>>
    /\ enr' = EnrichStart
    /\ pc' = IF ent_idx + 1 = Len(entities) THEN "write" ELSE "entity"
    /\ UNCHANGED <<input, io_faults, files, buffers, run, processed_keywords,
                   write_header, next_row, counters, keyword, entities, written,
                   history>>

\* the steps of a run
RunStep ==
    \/ WriteMatchedHeader
    \/ WriteUnmatchedHeader
    \/ BlankRow
    \/ SkipRow
    \/ SearchRow
    \/ LookupLabel
    \/ EnrichCall
    \/ BuildRow
    \/ WriteRow
    \/ FinishKeyword
    \/ Complete

NextLive == Bootstrap \/ RunStep

InitLive ==
    /\ InitPipeline
    /\ OneLineKeywords(input)
    /\ Len(input) <= MaxLiveInput
    /\ io_faults = FALSE

SpecLive == InitLive /\ [][NextLive]_vars /\ WF_vars(RunStep)

(***************************************************************************)
(* The scoring of one candidate (lines 192-234), for keywords and          *)
(* candidates of every shape: with and without a label, an id, aliases.    *)
(***************************************************************************)
ScoreKeywords ==
    { <<"a">>, <<"b">>, <<"a", "b">>, <<"a", " ", "b">>, <<"b", " ", "a">> }

ScoreLabels == { <<>>, <<"a">>, <<"b", " ", "a">> }

ScoreAliases == { <<>>, << <<"b">> >>, << <<"a", "b">>, <<"a", " ", "b">> >> }

ScoreEntities ==
    { [dict |-> TRUE, id |-> i, label |-> l, aliases |-> al] :
        i \in {<<>>, Q1}, l \in ScoreLabels, al \in ScoreAliases }

InitScore == InitPipeline /\ input = <<>> /\ io_faults = FALSE

ScoreCandidate ==
    /\ pc = "idle"
    /\ entities = <<>>
    /\ \E kw \in ScoreKeywords, ent \in ScoreEntities, reply \in LabelReplies :
          LET lab == ResolvedLabel(ent, reply)
              result_row == RowOf(kw, ent, lab, EmptyFacts, <<>>)
          IN  /\ keyword' = kw
              /\ entities' = <<ent>>
              /\ label' = lab
              /\ IF Score(result_row) >= min_score
                 THEN /\ matched_items' = <<result_row>>
                      /\ UNCHANGED unmatched_items
                 ELSE /\ unmatched_items' = <<result_row>>
                      /\ UNCHANGED matched_items
    /\ UNCHANGED <<input, io_faults, files, buffers, pc, run, processed_keywords,
                   write_header, next_row, counters, ent_idx, written, history, enr>>

NextScore == ScoreCandidate

SpecScore == InitScore /\ [][NextScore]_vars

(***************************************************************************)
(* One call of get_instances_and_subclasses, request by request, against   *)
(* an endpoint free to answer each request as it likes.                    *)
(***************************************************************************)
InitEnrich == InitPipeline /\ input = <<>> /\ io_faults = FALSE

EnrichRequest ==
    /\ ~enr.returned
    /\ \E resp \in EnrichResponses : enr' = EnrichAttempt(enr, resp)
    /\ UNCHANGED <<input, io_faults, files, buffers, pc, run, processed_keywords,
                   write_header, next_row, counters, locals, history>>

NextEnrich == EnrichRequest

SpecEnrich == InitEnrich /\ [][NextEnrich]_vars

(***************************************************************************)
(* Properties of the enricher.                                             *)
(***************************************************************************)
RECURSIVE Sum(_)
Sum(l) == IF l = <<>> THEN 0 ELSE Head(l) + Sum(Tail(l))

\* the requests of the call that got a result
Successes == {n \in 1..Len(enr.responses) : enr.responses[n].kind = "ok"}

FirstSuccess == CHOOSE n \in Successes : \A m \in Successes : n <= m

\* The sleep made after the n-th response, 0 when none was made: each
\* iteration sleeps at most once, and only the last one can go without.
SleepAfter(n) == IF n <= Len(enr.sleeps) THEN enr.sleeps[n] ELSE 0

\* the failures other than 429 among the first n responses
FailuresBefore(n) ==
    Cardinality({m \in 1..(n - 1) : m <= Len(enr.responses) /\ enr.responses[m].kind = "error"})

\* C7: one call issues at most 3 requests, goes on only while no request
\* has succeeded, returns the parsed bindings of the first successful
\* response, and returns four empty sequences after 3 requests without one.
C7_BoundedRetry ==
    /\ enr.requests <= 3
    /\ enr.requests = Len(enr.responses)
    /\ ~enr.returned => Successes = {}
    /\ enr.returned =>
          IF Successes # {}
          THEN /\ FirstSuccess = Len(enr.responses)
               /\ enr.facts = ParseBindings(enr.responses[FirstSuccess].results)
          ELSE /\ enr.requests = 3
               /\ enr.facts.p31_qids = <<>> /\ enr.facts.p31_labels = <<>>
               /\ enr.facts.p279_qids = <<>> /\ enr.facts.p279_labels = <<>>

\* C7 witness: rate-limited, then a failure, then a result on the third and
\* last request
C7_Witness ==
    /\ enr.returned
    /\ enr.requests = 3
    /\ enr.responses[1].kind = "429"
    /\ enr.responses[2].kind = "error"
    /\ enr.responses[3].kind = "ok"
    /\ enr.facts.p31_qids # <<>>

\* C8 as claimed: a failure other than 429 on attempt a is followed by a
\* wait of 2^a seconds, also on the last attempt, so three failures in a row
\* wait 7 seconds.
C8_BackoffAsClaimed ==
    /\ \A n \in 1..Len(enr.responses) :
          enr.responses[n].kind = "error" => SleepAfter(n) = 1000 * Pow2(n - 1)
    /\ (enr.returned /\ FailuresBefore(4) = 3) => Sum(enr.sleeps) = 7000

\* C8 amended: a failure other than 429 is followed by a wait of 1 s on
\* attempt 0 and of 2 s on attempt 1, and by no wait on attempt 2, after
\* which the call returns; three failures in a row wait 1 + 2 = 3 seconds.
C8_Backoff ==
    /\ \A n \in 1..Len(enr.responses) :
          enr.responses[n].kind = "error" =>
            SleepAfter(n) = (CASE n = 1 -> 1000 [] n = 2 -> 2000 [] OTHER -> 0)
    /\ (enr.returned /\ FailuresBefore(4) = 3) => Sum(enr.sleeps) = 3000

\* C8 witness: three failures in a row
C8_Witness ==
    /\ enr.returned
    /\ FailuresBefore(4) = 3
    /\ enr.sleeps = <<1000, 2000>>

\* C9 as claimed: every 429 is followed by a wait of 10 s and then a retry,
\* and the wait after a failure other than 429 depends only on the number
\* of such failures before it.
C9_RateLimitAsClaimed ==
    \A n \in 1..Len(enr.responses) :
       /\ enr.responses[n].kind = "429" =>
            /\ SleepAfter(n) = 10000
            /\ ~(enr.returned /\ n = Len(enr.responses))
       /\ (enr.responses[n].kind = "error" /\ n <= Len(enr.sleeps)) =>
            SleepAfter(n) = 1000 * Pow2(FailuresBefore(n))

\* C9 amended: every 429 is followed by a wait of 10 s; a retry follows it
\* on attempts 0 and 1, and on attempt 2 the call returns four empty
\* sequences; a 429 uses up an attempt, so the wait after a later failure
\* on attempt a is 2^a seconds with the 429 responses counted in a.
C9_RateLimit ==
    \A n \in 1..Len(enr.responses) :
       /\ enr.responses[n].kind = "429" =>
            /\ SleepAfter(n) = 10000
            /\ n < 3 => ~(enr.returned /\ n = Len(enr.responses))
            /\ n = 3 => (enr.returned /\ enr.facts.p31_qids = <<>>
                                       /\ enr.facts.p279_qids = <<>>)
       /\ (enr.responses[n].kind = "error" /\ n <= Len(enr.sleeps)) =>
            SleepAfter(n) = 1000 * Pow2(n - 1)

\* C9 witness: rate-limited first, then a failure that waits 2 s, not 1 s
C9_Witness ==
    /\ Len(enr.responses) = 2
    /\ enr.responses[1].kind = "429"
    /\ enr.responses[2].kind = "error"
    /\ enr.sleeps = <<10000, 2000>>

\* the (id, label) pairs of the bindings of a result, for one relation
PairsOf(results, var, lab) ==
    { <<AfterLastSlash(results[n][var]), results[n][lab]>> :
        n \in {m \in 1..Len(results) : var \in DOMAIN results[m] /\ lab \in DOMAIN results[m]} }

Zip(ids, labels) == {<<ids[n], labels[n]>> : n \in 1..Len(ids)}

\* C10 as claimed: the ids and labels returned for a relation have the same
\* length and the i-th label is the label bound to the i-th id: zipped, they
\* are the (id, label) pairs of the bindings.
C10_PairsKept ==
    (enr.returned /\ Successes # {}) =>
       LET results == enr.responses[FirstSuccess].results
       IN  /\ Len(enr.facts.p31_qids) = Len(enr.facts.p31_labels)
           /\ Len(enr.facts.p279_qids) = Len(enr.facts.p279_labels)
           /\ Zip(enr.facts.p31_qids, enr.facts.p31_labels)
                 = PairsOf(results, "p31", "p31Label")
           /\ Zip(enr.facts.p279_qids, enr.facts.p279_labels)
                 = PairsOf(results, "p279", "p279Label")

\* the values bound to variable var in the bindings of a result
ValuesOf(results, var) ==
    {results[n][var] : n \in {m \in 1..Len(results) : var \in DOMAIN results[m]}}

StrictlyAscending(l) == \A n \in 1..(Len(l) - 1) : StrLess(l[n], l[n + 1])

\* C11: after a successful response each of the four sequences returned is
\* strictly ascending in lexicographic order, hence free of duplicates, and
\* holds exactly the values its variable has in the bindings of the response
\* (for the ids, the last segment of the entity URI).
C11_SortedDeduplicated ==
    (enr.returned /\ Successes # {}) =>
       LET results == enr.responses[FirstSuccess].results
       IN  /\ StrictlyAscending(enr.facts.p31_qids)
           /\ StrictlyAscending(enr.facts.p31_labels)
           /\ StrictlyAscending(enr.facts.p279_qids)
           /\ StrictlyAscending(enr.facts.p279_labels)
           /\ {Uri(q) : q \in Range(enr.facts.p31_qids)} = ValuesOf(results, "p31")
           /\ Range(enr.facts.p31_labels) = ValuesOf(results, "p31Label")
           /\ {Uri(q) : q \in Range(enr.facts.p279_qids)} = ValuesOf(results, "p279")
           /\ Range(enr.facts.p279_labels) = ValuesOf(results, "p279Label")

\* C11 witness: a response that binds the same instance twice gives one
\* entry
C11_Witness ==
    /\ enr.returned /\ Successes # {}
    /\ LET results == enr.responses[FirstSuccess].results
       IN  /\ Len(results) = 2
           /\ results[1] = results[2]
           /\ "p31" \in DOMAIN results[1]
    /\ Len(enr.facts.p31_qids) = 1
    /\ Len(enr.facts.p31_labels) = 1

(***************************************************************************)
(* Properties of the pipeline.                                             *)
(***************************************************************************)
\* the rows a partition gained since the bootstrap of the current run
Appended(p) == SubSeq(files[p].rows, start_len[p] + 1, Len(files[p].rows))

\* the keywords of the input rows 1..n that are not blank and not in S
RECURSIVE KeywordsOutside(_, _)
KeywordsOutside(n, S) ==
    IF n = 0 THEN <<>>
    ELSE LET k == KeywordOf(input[n])
         IN  KeywordsOutside(n - 1, S) \o (IF k # <<>> /\ k \notin S THEN <<k>> ELSE <<>>)

\* the input rows 1..n whose keyword is in S
RowsWithin(n, S) == {m \in 1..n : KeywordOf(input[m]) \in S}

\* C1 as claimed: a run that restarts after an interruption rebuilds, as
\* its Processed-Keyword Set, exactly the set F of keywords whose records
\* the earlier runs had flushed; it searches no keyword of F, counts every
\* input row of F it passes as skipped, and searches every other non-blank
\* keyword it passes, in input order.
C1_ResumedRun ==
    (resumed /\ pc \in (Running \cup {"done"})) =>
       /\ processed_keywords = F
       /\ \A n \in 1..Len(searched) : searched[n] \notin F
       /\ skipped_count = Cardinality(RowsWithin(next_row - 1, F))
       /\ searched = KeywordsOutside(next_row - 1, F)

\* C2 as claimed: the search is never called for a keyword that has a
\* durable record in a partition (while the result of a search for K is
\* being processed, K has no record).
C2_NoRequery == pc \in {"entity", "write"} => keyword \notin flushed

\* C3 as claimed: the records appended in one run never put the same
\* keyword in both partitions.
C3_OnePartition ==
    KeysOf(Records(Appended("matched"))) \cap KeysOf(Records(Appended("unmatched"))) = {}

\* C4 as claimed: a partition file never holds more than one header row,
\* and a run appends a header only to a partition that had no row at its
\* bootstrap.
C4_HeaderInvariant ==
    \A p \in Parts :
       /\ HeaderCount(files[p].rows) <= 1
       /\ HeaderCount(Appended(p)) > 0 => start_len[p] = 0

\* C5 as claimed: a keyword whose processing raised, and was never
\* processed to the end, has no record in either partition.
C5_FailureIsolation == \A k \in raised \ completed : k \notin flushed

\* C6: the step that ends the processing of a keyword with no candidates
\* leaves both partitions, what is buffered for them and the skipped
\* count as they were, and adds one to the processed count.
C6_Step ==
    (pc = "write" /\ entities = <<>> /\ pc' = "loop") =>
       /\ files' = files
       /\ buffers' = buffers
       /\ flushed' = flushed
       /\ skipped_count' = skipped_count
       /\ processed_count' = processed_count + 1

\* C6: a keyword whose search returns no candidates appends nothing to either
\* partition and is counted as processed, not as skipped.
C6_NoCandidates == [][C6_Step]_vars

\* C6 witness: the first keyword searched had no candidates and its
\* processing has ended
C6_Witness ==
    /\ pc = "loop"
    /\ Len(searched) = 1
    /\ processed_count = 1
    /\ skipped_count = 0
    /\ raised = {}
    /\ flushed = {}
    /\ buffers = NoBuffers

\* the records a partition holds, the ones written and not yet flushed
\* included
Held(p) == Records(files[p].rows \o buffers[p])

\* C12: every record of the matched partition has a score of at least
\* min_score, and every record of the unmatched partition a score below it.
C12_PartitionInvariant ==
    /\ \A n \in 1..Len(Held("matched")) : Score(Held("matched")[n]) >= min_score
    /\ \A n \in 1..Len(Held("unmatched")) : Score(Held("unmatched")[n]) < min_score

\* C12 witness: one keyword with a single candidate scoring 100 has its
\* record in matched, another has a record in unmatched
C12_Witness ==
    /\ pc = "done"
    /\ \E n \in 1..Len(files["matched"].rows) :
          /\ files["matched"].rows[n] # HeaderRow
          /\ Score(files["matched"].rows[n]) = 100
    /\ \E n \in 1..Len(files["unmatched"].rows) :
          /\ files["unmatched"].rows[n] # HeaderRow
          /\ Score(files["unmatched"].rows[n]) < min_score

\* the input rows 1..n with a blank keyword (an empty row, or a first field
\* that is empty once trimmed)
BlankRows(n) == {m \in 1..n : KeywordOf(input[m]) = <<>>}

\* the input rows 1..n whose keyword is not blank and is in S
NonBlankRowsWithin(n, S) ==
    {m \in 1..n : KeywordOf(input[m]) # <<>> /\ KeywordOf(input[m]) \in S}

\* C13 as claimed: at completion skipped_count is the number of input rows
\* whose keyword is blank or in the Processed-Keyword Set.
C13_SkipAsClaimed ==
    pc = "done" =>
       skipped_count = Cardinality(BlankRows(Len(input))
                                     \cup NonBlankRowsWithin(Len(input), processed_keywords))

\* C13 amended, step by step: skipped_count grows, by one, exactly in the
\* steps of a run that pass an input row whose keyword is not blank and is
\* in the Processed-Keyword Set; passing a blank row leaves it as it is.
C13_SkipStep ==
    (pc = "loop" /\ pc' \in {"loop", "entity", "write"}) =>
       IF next_row' = next_row + 1 /\ KeywordOf(input[next_row]) # <<>>
                                  /\ KeywordOf(input[next_row]) \in processed_keywords
       THEN skipped_count' = skipped_count + 1
       ELSE skipped_count' = skipped_count

\* C13 amended, in total: while a run iterates and at its completion,
\* skipped_count is the number of the rows passed whose keyword is not blank
\* and is in the Processed-Keyword Set.
C13_SkipTotal ==
    pc \in {"loop", "entity", "write", "done"} =>
       skipped_count = Cardinality(NonBlankRowsWithin(next_row - 1, processed_keywords))

\* C13 amended: a row is counted as skipped if and only if its keyword is
\* not blank and already in the Processed-Keyword Set; blank rows are passed
\* over uncounted.
C13_SkipAccounting == [](C13_SkipTotal) /\ [][C13_SkipStep]_vars

\* C13 witness: a completed run passed a blank row and skipped a row
C13_Witness ==
    /\ pc = "done"
    /\ BlankRows(Len(input)) # {}
    /\ skipped_count = 1

\* C14: a run that has opened its files reaches completion, every input row
\* visited, whatever the searches, the label, link and SPARQL requests bring.
C14_ReachesCompletion ==
    (pc = "header_matched") ~> (pc = "done" /\ next_row = Len(input) + 1)

\* C14 witness: a run has completed although the processing of a keyword
\* raised and the enrichment of a candidate ended with nothing
C14_Witness ==
    /\ pc = "done"
    /\ next_row = Len(input) + 1
    /\ raised # {}
    /\ \E p \in Parts : \E n \in 1..Len(files[p].rows) :
          files[p].rows[n] # HeaderRow /\ files[p].rows[n][5] = <<>>

\* the rows a partition held at the bootstrap of the current run
AtBootstrap(p) == SubSeq(files[p].rows, 1, start_len[p])

\* the keywords with a record, in either partition, at the bootstrap of the
\* current run
KeywordsAtBootstrap ==
    KeysOf(Records(AtBootstrap("matched"))) \cup KeysOf(Records(AtBootstrap("unmatched")))

\* C15 as claimed: a run that follows a completed run on the same input
\* appends no record for a keyword that had a record, in either partition,
\* when it began.
C15_Idempotence ==
    (run >= 2 /\ ~resumed /\ pc \in (Running \cup {"done"})) =>
       \A p \in Parts : KeysOf(Records(Appended(p))) \cap KeywordsAtBootstrap = {}

\* C17 as claimed: the Processed-Keyword Set of a run is exactly the set of
\* the trimmed first fields of the records, header rows left out, that the
\* two partition files held at its bootstrap.
C17_BootstrapExact ==
    pc \in Running => processed_keywords = KeywordsAtBootstrap

\* C16 as claimed, for the step that ends the processing of a keyword: with
\* a candidate at or above min_score the matched partition gains exactly
\* the keyword's matched records, in candidate order, and the unmatched
\* partition stays as it is; otherwise, with a candidate, the unmatched
\* partition gains exactly its unmatched records and the matched partition
\* stays as it is.
C16_Step ==
    (pc = "write" /\ pc' = "loop" /\ processed_count' = processed_count + 1) =>
       IF matched_items # <<>>
       THEN /\ files'["matched"].rows = files["matched"].rows \o matched_items
            /\ files'["unmatched"] = files["unmatched"]
       ELSE IF unmatched_items # <<>>
       THEN /\ files'["unmatched"].rows = files["unmatched"].rows \o unmatched_items
            /\ files'["matched"] = files["matched"]
       ELSE TRUE

\* C16 as claimed: every step that ends the processing of a keyword appends
\* exactly the keyword's matched records to matched, or else exactly its
\* unmatched records to unmatched, and leaves the other partition alone.
C16_WritePolicy == [][C16_Step]_vars

\* the similarities that count for a candidate: to its label when it has
\* one, and to each of its aliases
Similarities(kw, lab, aliases) ==
    (IF lab # <<>> THEN {token_sort_ratio(kw, lab)} ELSE {})
      \cup {token_sort_ratio(kw, aliases[n]) : n \in 1..Len(aliases)}

\* the rows made for the keyword at hand
RowsMade == matched_items \o unmatched_items

\* C18: the score in the row of a candidate is the greatest of the
\* similarities of the keyword to the label (when there is one, the fallback
\* having filled it in or not) and to each alias, and 0 when there is
\* neither; the label in the row is empty when the fallback was due and
\* brought nothing.
C18_BestScore ==
    \A n \in 1..Len(RowsMade) :
       LET row == RowsMade[n]
           sims == Similarities(row[1], row[3], entities[n].aliases)
       IN  /\ row[3] = label
           /\ entities[n].label # <<>> => row[3] = entities[n].label
           /\ IF sims = {}
              THEN Score(row) = 0
              ELSE /\ Score(row) \in sims
                   /\ \A x \in sims : Score(row) >= x

\* C18 witness: a candidate without a label, whose row has none either (the
\* fallback failed or brought nothing), gets its score, 100, from an alias
C18_Witness ==
    /\ Len(RowsMade) = 1
    /\ entities[1].label = <<>>
    /\ entities[1].id # <<>>
    /\ RowsMade[1][3] = <<>>
    /\ Score(RowsMade[1]) = 100

\* the first input row, from row `from` on, whose keyword is k; one past the
\* input when there is none
RECURSIVE RowFrom(_, _)
RowFrom(k, from) ==
    IF from > Len(input) THEN Len(input) + 1
    ELSE IF KeywordOf(input[from]) = k THEN from
    ELSE RowFrom(k, from + 1)

\* whether the records recs can come, in this order, from input rows taken
\* in input order from row `from` on (one row may give several records)
RECURSIVE InRowOrder(_, _)
InRowOrder(recs, from) ==
    IF recs = <<>> THEN TRUE
    ELSE LET r == RowFrom(Head(recs)[1], from)
         IN  r <= Len(input) /\ InRowOrder(Tail(recs), r)

\* the first input row whose keyword is k
FirstRowOf(k) == RowFrom(k, 1)

\* C19 as claimed: in each partition, whatever number of runs filled it, no
\* record of a keyword stands before a record of a keyword that comes
\* earlier in the input.
C19_InputOrderAsClaimed ==
    \A p \in Parts :
       LET recs == Records(files[p].rows)
       IN  \A m, n \in 1..Len(recs) :
              m < n => FirstRowOf(recs[m][1]) <= FirstRowOf(recs[n][1])

\* C19 amended: in each partition, the records appended by one run stand in
\* the order of the input rows they were made from.
C19_RunOrder ==
    \A p \in Parts : InRowOrder(Records(Appended(p)), 1)

\* C19 witness: a completed run has appended records of two keywords to one
\* partition
C19_Witness ==
    /\ pc = "done"
    /\ \E p \in Parts : Cardinality(KeysOf(Records(Appended(p)))) = 2

\* the input rows 1..n whose keyword is not blank
NonBlankRows(n) == {m \in 1..n : KeywordOf(input[m]) # <<>>}

\* C20, in total: between two keywords and at completion, the rows counted
\* as processed, those counted as skipped and those whose processing raised
\* are together the rows passed whose keyword is not blank; while a keyword
\* is being processed its row is not counted yet.
C20_Total ==
    /\ pc \in {"loop", "done"} =>
          processed_count + skipped_count + failed_count
             = Cardinality(NonBlankRows(next_row - 1))
    /\ pc \in {"entity", "write"} =>
          processed_count + skipped_count + failed_count
             = Cardinality(NonBlankRows(next_row - 1)) - 1
    /\ pc = "done" => next_row - 1 = Len(input)

\* C20, step by step: within a run no count goes down, and a step adds one
\* to at most one of them.
C20_Step ==
    (pc \in {"loop", "entity", "write"} /\ pc' \in {"loop", "entity", "write", "done"}) =>
       /\ processed_count' \in {processed_count, processed_count + 1}
       /\ skipped_count' \in {skipped_count, skipped_count + 1}
       /\ failed_count' \in {failed_count, failed_count + 1}
       /\ (processed_count' + skipped_count' + failed_count')
             - (processed_count + skipped_count + failed_count) \in {0, 1}
       /\ (processed_count' + skipped_count' + failed_count')
             > (processed_count + skipped_count + failed_count) =>
                (next_row' = next_row + 1 \/ pc \in {"entity", "write"})

\* C20: at the completion of a run processed_count, skipped_count and the
\* number of processings that raised add up to the number of input rows
\* with a non-blank keyword, and each input row adds one to one of them.
C20_CounterConservation == [](C20_Total) /\ [][C20_Step]_vars

\* C20 witness: a completed run counted a row as processed or skipped, and
\* the processing of another raised
C20_Witness ==
    /\ pc = "done"
    /\ failed_count = 1
    /\ processed_count + skipped_count = 1

====
